---- MODULE Spec2Model ----
(***************************************************************************)
(* A model of the SafeLLM terminal chat client: the file-backed session    *)
(* store (SessionManager), the command router and chat-turn driver         *)
(* (runChatSession), the agent's session tools, and the application loop   *)
(* (main).                                                                 *)
(*                                                                         *)
(* Strings are sequences of tokens.  A token is a run of characters of one *)
(* class: a word of letters and digits ("My", "t1"), a hyphen, a blank, a  *)
(* punctuation mark ("!"), or the file suffix ".json".                     *)
(*                                                                         *)
(* Every `await` of the source is a suspension point.  One action of the   *)
(* model is the completion of one awaited operation together with the      *)
(* synchronous code that runs up to the next await.                        *)
(***************************************************************************)
EXTENDS Integers, Sequences, FiniteSets, TLC

\* ------------------------------------------------------------- bounds
MaxClock == 2      \* distinct millisecond readings of the system clock
MaxInFlight == 2   \* line handlers that may be suspended at once
MaxFaults == 1     \* file operations that fail in one run
MaxLineLen == 3    \* characters the user types into one input line
MaxMemCalls == 3   \* calls of the memory tools
\* Spec: the user may type while a handler is suspended
MaxLines == 2      \* input lines the user submits to the router
MaxToolCalls == 1  \* session-tool calls the agent makes
\* SeqSpec: the user types only at the prompt, when no handler is suspended
MaxSeqLines == 3
MaxSeqToolCalls == 2

\* ------------------------------------------------------------- strings
Ext == ".json"
Blank == " "
\* characters outside [a-zA-Z0-9-_ ]
Punct == {"!", "."}

Null == <<"<null>">>

EndsWithJson(s) == Len(s) > 0 /\ s[Len(s)] = Ext

\* loadSession: if (!filename.endsWith('.json')) filename = `${filename}.json`
WithJson(s) == IF EndsWithJson(s) THEN s ELSE Append(s, Ext)

\* the storage key of a file: its name without the .json suffix
Stem(f) == IF EndsWithJson(f) THEN SubSeq(f, 1, Len(f) - 1) ELSE f

\* newName.replace(/[^a-zA-Z0-9-_ ]/g, '')
RECURSIVE StripChars(_)
StripChars(s) ==
    IF s = <<>> THEN <<>>
    ELSE IF Head(s) \in Punct THEN StripChars(Tail(s))
    ELSE IF Head(s) = Ext THEN <<"json">> \o StripChars(Tail(s))
    ELSE <<Head(s)>> \o StripChars(Tail(s))

RECURSIVE TrimLeft(_)
TrimLeft(s) ==
    IF s # <<>> /\ Head(s) = Blank THEN TrimLeft(Tail(s)) ELSE s

RECURSIVE TrimRight(_)
TrimRight(s) ==
    IF s # <<>> /\ s[Len(s)] = Blank THEN TrimRight(SubSeq(s, 1, Len(s) - 1)) ELSE s

\* String.prototype.trim
Trim(s) == TrimRight(TrimLeft(s))

\* .replace(/\s+/g, '-'): every maximal run of blanks becomes one hyphen
RECURSIVE CollapseBlanks(_)
CollapseBlanks(s) ==
    IF s = <<>> THEN <<>>
    ELSE IF Head(s) = Blank
         THEN <<"-">> \o CollapseBlanks(TrimLeft(s))
         ELSE <<Head(s)>> \o CollapseBlanks(Tail(s))

\* renameSession: the sanitized slug of a new name
Sanitize(newName) == CollapseBlanks(Trim(StripChars(newName)))

\* createSession: `session-${timestamp}`, the timestamp read from the clock
Stamp(t) == <<"t1", "t2", "t3", "t4", "t5">>[t]
SessionId(t) == <<"session", "-", Stamp(t)>>

\* ------------------------------------------------------------ messages
UserWord(n) == <<"u1", "u2", "u3", "u4", "u5">>[n]
AnswerWord(n) == <<"r1", "r2", "r3", "r4", "r5">>[n]
ThoughtWord(n) == <<"x1", "x2", "x3", "x4", "x5">>[n]
ThinkOpen == "<think>"
ThinkClose == "</think>"

\* the text the user types for the n-th chat message
UserText(n) == <<UserWord(n)>>

\* the texts the generation collaborator may return for the n-th chat message
Replies(n) ==
    { <<AnswerWord(n)>>,
      <<ThinkOpen, ThoughtWord(n), ThinkClose, Blank, AnswerWord(n)>>,
      <<ThinkOpen, ThoughtWord(n), ThinkClose>>,
      <<ThinkOpen, ThoughtWord(n), ThinkClose, AnswerWord(n), Blank,
        ThinkOpen, ThoughtWord(n), ThinkClose>> }

UserMsg(n) == [role |-> "user", content |-> UserText(n)]

\* index of the first ThinkClose at or after position i, 0 if none
RECURSIVE FindClose(_, _)
FindClose(s, i) ==
    IF i > Len(s) THEN 0
    ELSE IF s[i] = ThinkClose THEN i
    ELSE FindClose(s, i + 1)

\* responseText.replace(/<think>[\s\S]*?<\/think>/g, '')
RECURSIVE StripThink(_)
StripThink(s) ==
    IF s = <<>> THEN <<>>
    ELSE IF Head(s) = ThinkOpen /\ FindClose(s, 2) # 0
         THEN StripThink(SubSeq(s, FindClose(s, 2) + 1, Len(s)))
         ELSE <<Head(s)>> \o StripThink(Tail(s))

\* a history that keeps the generated text as it is
HistoryContentRaw(responseText) == responseText

\* const historyContent = ....trim(); content: historyContent || responseText
HistoryContent(responseText) ==
    IF Trim(StripThink(responseText)) # <<>>
    THEN Trim(StripThink(responseText))
    ELSE responseText

AssistantMsg(responseText) ==
    [role |-> "assistant", content |-> HistoryContent(responseText)]

\* ------------------------------------------------------- session store
NoSession == [id |-> Null, filename |-> <<>>, createdAt |-> 0, messages |-> <<>>]

\* a createSession that names the file by the bare timestamp
NewSessionBareStamp(t) ==
    [id |-> SessionId(t), filename |-> <<Stamp(t), Ext>>,
     createdAt |-> t, messages |-> <<>>]

\* createSession: the record of a session created at clock reading t
NewSession(t) ==
    [id |-> SessionId(t), filename |-> Append(SessionId(t), Ext),
     createdAt |-> t, messages |-> <<>>]

\* fs.writeFile(path, JSON.stringify(rec))
WriteFile(fs, f, rec) ==
    [g \in DOMAIN fs \cup {f} |-> IF g = f THEN rec ELSE fs[g]]

\* fs.rename(oldPath, newPath): replaces whatever newPath held
MoveFile(fs, old, new) ==
    [g \in (DOMAIN fs \ {old}) \cup {new} |-> IF g = new THEN fs[old] ELSE fs[g]]

\* what a file holds when its text is not JSON: JSON.parse throws
Garbage == [NoSession EXCEPT !.filename = <<"<garbage>">>]

\* what a file holds when its text is the JSON literal null: JSON.parse
\* returns null
JsonNull == [NoSession EXCEPT !.filename = <<"<json null>">>]

\* listSessions: the files whose name ends with .json and whose text parses
Parsed(fs) == {f \in DOMAIN fs : EndsWithJson(f) /\ fs[f] # Garbage}

\* listSessions: the records of the files whose name ends with .json
Listed(fs) == {fs[f] : f \in Parsed(fs)}

\* sessions.sort(...): the comparator is called when there are two or more
\* entries, and reading createdAt of null throws a TypeError
SortThrows(fs) ==
    Cardinality(Parsed(fs)) >= 2 /\ \E f \in Parsed(fs) : fs[f] = JsonNull

\* the files fnames of fs, by createdAt of their records, latest first
RECURSIVE SortedDesc(_, _)
SortedDesc(fs, fnames) ==
    IF fnames = {} THEN <<>>
    ELSE LET f == CHOOSE g \in fnames :
                    \A h \in fnames : fs[h].createdAt <= fs[g].createdAt
         IN <<fs[f]>> \o SortedDesc(fs, fnames \ {f})

\* listSessions on the directory fs: it throws, or returns the sorted list
ListSessions(fs) ==
    [throws |-> SortThrows(fs),
     sessions |-> IF SortThrows(fs) THEN <<>> ELSE SortedDesc(fs, Parsed(fs))]

\* loadSession, the search after the direct read failed:
\* sessions.find(s => s.id === filenameOrId || s.filename === filenameOrId
\*                    || s.filename === filename)
Matches(fs, arg) ==
    {s \in Listed(fs) :
        s.id = arg \/ s.filename = arg \/ s.filename = WithJson(arg)}

\* find returns the first match of the list sorted by createdAt descending;
\* among records of equal createdAt the order is that of readdir
FindResults(fs, arg) ==
    IF Matches(fs, arg) = {} THEN {NoSession}
    ELSE {s \in Matches(fs, arg) :
            \A r \in Matches(fs, arg) : r.createdAt <= s.createdAt}

\* what loadSession(arg) returns on storage fs when no file operation fails
LoadResults(fs, arg) ==
    IF WithJson(arg) \in DOMAIN fs THEN {fs[WithJson(arg)]}
    ELSE FindResults(fs, arg)

\* ------------------------------------------------------------- inputs
Insts == {"cli", "tools"}
Configs == {"cfgA", "cfgB"}

\* names the user may give to /rename
NewNames ==
    { <<"My", Blank, Blank, "Name", "!">>,
      <<"!">>,
      SessionId(1) }

\* names the agent gives to rename-session
ToolNames == { <<Blank, "My", Blank, Blank, "Name", "!">> }

\* identifiers the agent may give to rename-session
LoadArgs(fs) ==
    {Stem(f) : f \in DOMAIN fs} \cup DOMAIN fs \cup {<<"nope">>}

\* -------------------------------------------------------------- state
VARIABLES
    files,        \* the session directory: file name -> record
    cur,          \* currentSessionId of each SessionManager instance
    transcripts,  \* the messages array of each runChatSession call, in call order
    hs,           \* the line handlers in flight
    mainPc,       \* where main() is
    mainSess,     \* main's createSession: the record it is writing
    clock,        \* the last reading of the system clock
    config,       \* main's config object
    agentCfg,     \* the configuration the current agent was built from
    nLines, nTurns, nFaults, nTools,
    ev,           \* the operation that completed in the last step
    line,         \* rl.line: the input line being edited, a sequence of characters
    cursor,       \* rl.cursor
    suggestion,   \* the ghost text of runChatSession
    rootSuggestionTimer,   \* the timer handle of runChatSession: 0 for null
    showRootSuggestion,    \* the reveal latch of runChatSession
    timers,       \* the timeouts that are set and have neither fired nor been cleared
    quiet,        \* the time since the last keypress, up to Delay
    key,          \* the last keypress, whether a timeout was pending then, and
                  \* whether an odd number of keys has been pressed
    memory,       \* MEMORY.md: its text, or NoFile
    memLog        \* the memory-tool calls made so far, with what they returned

\* the line editor and its ghost text
uiVars == <<line, cursor, suggestion, rootSuggestionTimer, showRootSuggestion,
            timers, quiet, key>>

\* the long-term memory log
memVars == <<memory, memLog>>

\* the session store, the router and the application loop
coreVars == <<files, cur, transcripts, hs, mainPc, mainSess, clock, config,
              agentCfg, nLines, nTurns, nFaults, nTools, ev>>

vars == <<coreVars, uiVars, memVars>>

\* MEMORY.md does not exist
NoFile == <<"<no file>">>

\* no key has been pressed
NoKey == [name |-> "none", pending |-> FALSE, odd |-> FALSE]

\* the line editor after rl.prompt() on an empty line
UiInit ==
    /\ line = <<>>
    /\ cursor = 0
    /\ suggestion = <<>>
    /\ rootSuggestionTimer = 0
    /\ showRootSuggestion = FALSE
    /\ timers = {}
    /\ quiet = 0
    /\ key = NoKey

\* no memory has been saved
MemInit ==
    /\ memory = NoFile
    /\ memLog = <<>>

\* a line handler: ln the number of its line; op the command; call the
\* SessionManager method it is in and pc the await it is suspended at; inst the
\* instance the method runs on; ret who awaits the method; ep its messages
\* array; arg, name, path, sess the method's locals; turn its chat message;
\* pre currentSessionId when the method was called.  Idle: it has ended
Idle ==
    [ln |-> 0, op |-> "idle", call |-> "-", pc |-> "-", inst |-> "cli",
     ret |-> "-", ep |-> 0, arg |-> <<>>, name |-> <<>>, path |-> <<>>,
     sess |-> NoSession, before |-> NoSession, turn |-> 0, pre |-> Null]

\* kind: the operation; inst: the SessionManager instance; arg, name: its
\* arguments (name: for a generation, the text it returned); path: the file it wrote; res: the record it returned or wrote;
\* old: the messages the file held before, or the list a listing returned; ok: its outcome; fault: a file
\* operation of it failed; pre: currentSessionId when it was called; ep: the
\* runChatSession call of its handler
NoEv ==
    [kind |-> "none", inst |-> "cli", arg |-> <<>>, name |-> <<>>,
     path |-> <<>>, res |-> NoSession, old |-> <<>>, ok |-> FALSE,
     fault |-> FALSE, pre |-> Null, ep |-> 0]

\* if (!this.currentSessionId): null and the empty string are falsy
Falsy(id) == id = Null \/ id = <<>>

Init ==
    /\ files = << >>
    /\ cur = [i \in Insts |-> Null]
    /\ transcripts = <<>>
    /\ hs = {}
    /\ mainPc = "ensureConfig"
    /\ mainSess = NoSession
    /\ clock = 1
    /\ config = "cfgA"
    /\ agentCfg = "cfgA"
    /\ nLines = 0
    /\ nTurns = 0
    /\ nFaults = 0
    /\ nTools = 0
    /\ ev = NoEv
    /\ UiInit
    /\ MemInit

Ev(kind) == [NoEv EXCEPT !.kind = kind]

CanFault == nFaults < MaxFaults

\* new Date(): a reading of the system clock, which never runs backwards and
\* may not have advanced since it was last read
Now == clock..MaxClock

\* process.exit: no handler is left
AllIdle == {}

\* ---------------------------------------------------------------- main
\* let config = await ensureConfig(); new SessionManager();
\* sessionManager.createSession() up to its first await
EnsureConfig ==
    /\ mainPc = "ensureConfig"
    /\ mainPc' = "create.dir"
    /\ ev' = NoEv
    /\ UNCHANGED <<uiVars, memVars, files, cur, transcripts, hs, mainSess, clock, config,
                   agentCfg, nLines, nTurns, nFaults, nTools>>

\* createSession in main: ensureSessionDir is done, the clock is read and the
\* record is built
MainCreateDir ==
    /\ mainPc = "create.dir"
    /\ \E t \in Now : clock' = t /\ mainSess' = NewSession(t)
    /\ mainPc' = "create.write"
    /\ ev' = NoEv
    /\ UNCHANGED <<uiVars, memVars, files, cur, transcripts, hs, config, agentCfg,
                   nLines, nTurns, nFaults, nTools>>

\* createSession in main: the record is written and becomes the active
\* session; main enters its loop, builds the agent and starts the probe
MainCreateWrite ==
    /\ mainPc = "create.write"
    /\ files' = WriteFile(files, mainSess.filename, mainSess)
    /\ cur' = [cur EXCEPT !["cli"] = mainSess.id]
    /\ agentCfg' = config
    /\ mainPc' = "probe"
    /\ ev' = [Ev("create") EXCEPT !.arg = mainSess.id, !.path = mainSess.filename,
                                  !.res = mainSess, !.ok = TRUE, !.pre = cur["cli"]]
    /\ UNCHANGED <<uiVars, memVars, transcripts, hs, mainSess, clock, config, nLines, nTurns,
                   nFaults, nTools>>

\* createSession in main: writeFile throws, main() rejects, the process dies
MainCreateFail ==
    /\ mainPc = "create.write"
    /\ CanFault
    /\ nFaults' = nFaults + 1
    /\ mainPc' = "crashed"
    /\ hs' = AllIdle
    /\ ev' = [Ev("create") EXCEPT !.fault = TRUE]
    /\ UNCHANGED <<uiVars, memVars, files, cur, transcripts, mainSess, clock, config, agentCfg,
                   nLines, nTurns, nTools>>

\* checkConnectionAndPrompt: the probe answers ok; main calls runChatSession,
\* which makes a new messages array and prompts
ProbeOk ==
    /\ mainPc = "probe"
    /\ transcripts' = Append(transcripts, <<>>)
    /\ mainPc' = "chat"
    /\ ev' = [Ev("enterChat") EXCEPT !.ep = Len(transcripts) + 1]
    /\ UNCHANGED <<uiVars, memVars, files, cur, hs, mainSess, clock, config, agentCfg,
                   nLines, nTurns, nFaults, nTools>>

\* checkConnectionAndPrompt: the probe fails; the user is asked
ProbeFail ==
    /\ mainPc = "probe"
    /\ mainPc' = "ask"
    /\ ev' = NoEv
    /\ UNCHANGED <<uiVars, memVars, files, cur, transcripts, hs, mainSess, clock, config,
                   agentCfg, nLines, nTurns, nFaults, nTools>>

\* answer q: return false; main calls process.exit(0)
AskQuit ==
    /\ mainPc = "ask"
    /\ mainPc' = "exit"
    /\ hs' = AllIdle
    /\ ev' = NoEv
    /\ UNCHANGED <<uiVars, memVars, files, cur, transcripts, mainSess, clock, config,
                   agentCfg, nLines, nTurns, nFaults, nTools>>

\* answer c: runSetupWizard is started
AskChange ==
    /\ mainPc = "ask"
    /\ mainPc' = "askWizard"
    /\ ev' = NoEv
    /\ UNCHANGED <<uiVars, memVars, files, cur, transcripts, hs, mainSess, clock, config,
                   agentCfg, nLines, nTurns, nFaults, nTools>>

\* any other answer: the loop probes again
AskRetry ==
    /\ mainPc = "ask"
    /\ mainPc' = "probe"
    /\ ev' = NoEv
    /\ UNCHANGED <<uiVars, memVars, files, cur, transcripts, hs, mainSess, clock, config,
                   agentCfg, nLines, nTurns, nFaults, nTools>>

\* a check that takes the changed configuration as good and returns true
AskWizardDoneNoProbe ==
    /\ mainPc = "askWizard"
    /\ \E c \in Configs : config' = c
    /\ transcripts' = Append(transcripts, <<>>)
    /\ mainPc' = "chat"
    /\ ev' = [Ev("enterChat") EXCEPT !.ep = Len(transcripts) + 1]
    /\ UNCHANGED <<uiVars, memVars, files, cur, hs, mainSess, clock, agentCfg,
                   nLines, nTurns, nFaults, nTools>>

\* the wizard returns: Object.assign(config, newConfig); continue
AskWizardDone ==
    /\ mainPc = "askWizard"
    /\ \E c \in Configs : config' = c
    /\ mainPc' = "probe"
    /\ ev' = NoEv
    /\ UNCHANGED <<uiVars, memVars, files, cur, transcripts, hs, mainSess, clock, agentCfg,
                   nLines, nTurns, nFaults, nTools>>

\* the wizard throws (saveConfig fails): caught, the loop probes again
AskWizardFail ==
    /\ mainPc = "askWizard"
    /\ CanFault
    /\ nFaults' = nFaults + 1
    /\ mainPc' = "probe"
    /\ ev' = NoEv
    /\ UNCHANGED <<uiVars, memVars, files, cur, transcripts, hs, mainSess, clock, config,
                   agentCfg, nLines, nTurns, nTools>>

\* action === 'configure': config = await runSetupWizard(); the loop continues:
\* a new agent is built from config and the probe starts
WizardDone ==
    /\ mainPc = "wizard"
    /\ \E c \in Configs : config' = c /\ agentCfg' = c
    /\ mainPc' = "probe"
    /\ ev' = NoEv
    /\ UNCHANGED <<uiVars, memVars, files, cur, transcripts, hs, mainSess, clock,
                   nLines, nTurns, nFaults, nTools>>

\* the wizard throws in main's loop: main() rejects, the process dies
WizardFail ==
    /\ mainPc = "wizard"
    /\ CanFault
    /\ nFaults' = nFaults + 1
    /\ mainPc' = "crashed"
    /\ hs' = AllIdle
    /\ ev' = NoEv
    /\ UNCHANGED <<uiVars, memVars, files, cur, transcripts, mainSess, clock, config, agentCfg,
                   nLines, nTurns, nTools>>

MainSteps ==
    \/ EnsureConfig \/ MainCreateDir \/ MainCreateWrite
    \/ ProbeOk \/ ProbeFail \/ AskQuit \/ AskChange \/ AskRetry
    \/ AskWizardDone \/ WizardDone

MainFaults == MainCreateFail \/ AskWizardFail \/ WizardFail

\* -------------------------------------------------------------- router
\* the messages array of the running runChatSession call
Ep == Len(transcripts)

\* readline emits 'line' whenever the user submits a line while the interface
\* is open; it does not wait for the promise of an earlier handler
CanLine == mainPc = "chat"

\* the handlers in flight with r replaced by x, or ended when x is Idle
Put(r, x) == IF x.op = "idle" THEN hs \ {r} ELSE (hs \ {r}) \cup {x}

\* a handler for a new line can start
CanStart == Cardinality(hs) < MaxInFlight

\* the handler of the line being read
NewHandler == [Idle EXCEPT !.ln = nLines + 1, !.ep = Ep]

\* a call returns to the code that awaited it: the router handler, which
\* prompts and ends, or the agent, which goes on generating
AfterCall(r) ==
    IF r.ret = "gen"
    THEN [Idle EXCEPT !.ln = r.ln, !.op = r.op, !.pc = "gen", !.ep = r.ep,
                      !.turn = r.turn]
    ELSE Idle

\* an exception leaves an async line handler: an unhandled rejection, which
\* ends the process or only the handler, by the Node version and flags
Unhandled(r) ==
    \/ mainPc' = "crashed" /\ hs' = AllIdle
    \/ mainPc' = mainPc /\ hs' = hs \ {r}

\* text starts with prefix
StartsWith(text, prefix) ==
    Len(text) >= Len(prefix) /\ SubSeq(text, 1, Len(prefix)) = prefix

QuitWords == {<<"exit">>, <<"quit">>, <<"/exit">>, <<"/quit">>}

\* a dispatch that looks only at the first word of the input
CommandByFirstWord(input) ==
    IF input = <<>> THEN "empty"
    ELSE IF <<input[1]>> \in QuitWords THEN "quit"
    ELSE IF input[1] = "/config" THEN "config"
    ELSE IF input[1] = "/help" THEN "help"
    ELSE IF input[1] = "/clear" THEN "clear"
    ELSE IF input[1] = "/history" THEN "history"
    ELSE IF StartsWith(input, <<"/load", Blank>>) THEN "load"
    ELSE IF StartsWith(input, <<"/rename", Blank>>) THEN "rename"
    ELSE "chat"

\* the branch of the line handler that the trimmed input takes
Command(input) ==
    IF input \in QuitWords THEN "quit"
    ELSE IF input = <<"/config">> THEN "config"
    ELSE IF input = <<"/help">> THEN "help"
    ELSE IF input = <<"/clear">> THEN "clear"
    ELSE IF input = <<"/history">> THEN "history"
    ELSE IF StartsWith(input, <<"/load", Blank>>) THEN "load"
    ELSE IF StartsWith(input, <<"/rename", Blank>>) THEN "rename"
    ELSE IF input = <<>> THEN "empty"
    ELSE "chat"

\* input.substring(6).trim(), input.substring(8).trim(): what follows the
\* command word and its blank
Argument(input) == Trim(SubSeq(input, 3, Len(input)))

\* the handler reads the line l: const input = line.trim()
Reads(l, cmds) == CanLine /\ Command(Trim(l)) \in cmds

LineEv(kind, l) == [Ev(kind) EXCEPT !.name = l]

\* exit, quit, /exit, /quit: resolve('quit'); main calls process.exit(0)
LineQuit(l) ==
    /\ Reads(l, {"quit"})
    /\ nLines' = nLines + 1
    /\ mainPc' = "exit"
    /\ hs' = AllIdle
    /\ ev' = LineEv("quit", l)
    /\ UNCHANGED <<uiVars, memVars, files, cur, transcripts, mainSess, clock, config, agentCfg,
                   nTurns, nFaults, nTools>>

\* /config: rl.close(); resolve('configure'); main starts the wizard
LineConfig(l) ==
    /\ Reads(l, {"config"})
    /\ nLines' = nLines + 1
    /\ mainPc' = "wizard"
    /\ ev' = LineEv("configure", l)
    /\ UNCHANGED <<uiVars, memVars, files, cur, transcripts, hs, mainSess, clock, config,
                   agentCfg, nTurns, nFaults, nTools>>

\* /help or an empty line: print, prompt
LineHelp(l) ==
    /\ Reads(l, {"help", "empty"})
    /\ nLines' = nLines + 1
    /\ ev' = LineEv("line", l)
    /\ UNCHANGED <<uiVars, memVars, files, cur, transcripts, hs, mainPc, mainSess, clock,
                   config, agentCfg, nTurns, nFaults, nTools>>

\* /clear: messages.length = 0; createSession() up to its first await
LineClear(l) ==
    /\ Reads(l, {"clear"}) /\ CanStart
    /\ nLines' = nLines + 1
    /\ transcripts' = [transcripts EXCEPT ![Ep] = <<>>]
    /\ hs' = hs \cup {[NewHandler EXCEPT !.op = "clear", !.call = "create",
                                         !.pc = "create.dir", !.ret = "prompt",
                                         !.pre = cur["cli"]]}
    /\ ev' = LineEv("line", l)
    /\ UNCHANGED <<uiVars, memVars, files, cur, mainPc, mainSess, clock, config, agentCfg,
                   nTurns, nFaults, nTools>>

\* /history: listSessions() up to its first await
LineHistory(l) ==
    /\ Reads(l, {"history"}) /\ CanStart
    /\ nLines' = nLines + 1
    /\ hs' = hs \cup {[NewHandler EXCEPT !.op = "history", !.call = "list",
                                         !.pc = "list", !.ret = "prompt"]}
    /\ ev' = LineEv("line", l)
    /\ UNCHANGED <<uiVars, memVars, files, cur, transcripts, mainPc, mainSess, clock, config,
                   agentCfg, nTurns, nFaults, nTools>>

\* /load <id>: loadSession(sessionId) up to its readFile
LineLoad(l) ==
    /\ Reads(l, {"load"}) /\ CanStart
    /\ nLines' = nLines + 1
    /\ hs' = hs \cup {[NewHandler EXCEPT !.op = "load", !.call = "load",
                                         !.pc = "load.read", !.ret = "prompt",
                                         !.arg = Argument(Trim(l)),
                                         !.pre = cur["cli"]]}
    /\ ev' = LineEv("line", l)
    /\ UNCHANGED <<uiVars, memVars, files, cur, transcripts, mainPc, mainSess, clock, config,
                   agentCfg, nTurns, nFaults, nTools>>

\* /rename <name>: with no name or no active session only a message is
\* printed; else renameSession(currentId, newName) up to the readFile of its
\* loadSession
LineRename(l) ==
    /\ Reads(l, {"rename"}) /\ CanStart
    /\ nLines' = nLines + 1
    /\ hs' = IF Argument(Trim(l)) = <<>> \/ Falsy(cur["cli"]) THEN hs
             ELSE hs \cup {[NewHandler EXCEPT !.op = "rename", !.call = "rename",
                                              !.pc = "load.read", !.ret = "prompt",
                                              !.arg = cur["cli"],
                                              !.name = Argument(Trim(l)),
                                              !.pre = cur["cli"]]}
    /\ ev' = LineEv("line", l)
    /\ UNCHANGED <<uiVars, memVars, files, cur, transcripts, mainPc, mainSess, clock, config,
                   agentCfg, nTurns, nFaults, nTools>>

\* logInteraction(messages) up to its readFile, called by the handler r, which
\* goes on at next when it returns: with no active session it returns at once
CallLog(r, next) ==
    IF Falsy(cur["cli"])
    THEN AfterCall([r EXCEPT !.ret = next])
    ELSE [r EXCEPT !.call = "log", !.pc = "log.read", !.ret = next,
                   !.path = Append(cur["cli"], Ext), !.pre = cur["cli"]]

\* any other line: messages.push({role: 'user', ...}); logInteraction(messages)
LineChat(l) ==
    /\ Reads(l, {"chat"}) /\ CanStart
    /\ nLines' = nLines + 1
    /\ nTurns' = nTurns + 1
    /\ transcripts' = [transcripts EXCEPT ![Ep] = Append(@, UserMsg(nTurns + 1))]
    /\ hs' = hs \cup {CallLog([NewHandler EXCEPT !.op = "chat",
                                                 !.turn = nTurns + 1], "gen")}
    /\ ev' = LineEv("line", l)
    /\ UNCHANGED <<uiVars, memVars, files, cur, mainPc, mainSess, clock, config, agentCfg,
                   nFaults, nTools>>

\* ------------------------------------------------------- createSession
\* /clear's createSession: ensureSessionDir is done, the clock is read and
\* the record is built
CreateDir(r) ==
    /\ r.pc = "create.dir"
    /\ \E t \in Now :
        /\ clock' = t
        /\ hs' = Put(r, [r EXCEPT !.pc = "create.write", !.sess = NewSession(t)])
    /\ ev' = NoEv
    /\ UNCHANGED <<uiVars, memVars, files, cur, transcripts, mainPc, mainSess, config,
                   agentCfg, nLines, nTurns, nFaults, nTools>>

\* the record is written; this.currentSessionId = id; return id; rl.prompt()
CreateWrite(r) ==
    /\ r.pc = "create.write"
    /\ files' = WriteFile(files, r.sess.filename, r.sess)
    /\ cur' = [cur EXCEPT !["cli"] = r.sess.id]
    /\ ev' = [Ev("create") EXCEPT !.arg = r.sess.id, !.path = r.sess.filename,
                                  !.res = r.sess, !.ok = TRUE, !.pre = r.pre,
                                  !.ep = r.ep]
    /\ hs' = Put(r, Idle)
    /\ UNCHANGED <<uiVars, memVars, transcripts, mainPc, mainSess, clock, config, agentCfg,
                   nLines, nTurns, nFaults, nTools>>

\* writeFile throws: createSession rejects and so does the /clear handler
CreateFail(r) ==
    /\ r.pc = "create.write"
    /\ CanFault
    /\ nFaults' = nFaults + 1
    /\ Unhandled(r)
    /\ ev' = [Ev("create") EXCEPT !.fault = TRUE, !.pre = r.pre, !.ep = r.ep]
    /\ UNCHANGED <<uiVars, memVars, files, cur, transcripts, mainSess, clock, config, agentCfg,
                   nLines, nTurns, nTools>>

\* -------------------------------------------------------- listSessions
\* /history: the listing is printed; nothing changes
HistoryList(r) ==
    /\ r.pc = "list"
    /\ hs' = Put(r, Idle)
    /\ ev' = [Ev("list") EXCEPT !.ok = TRUE, !.ep = r.ep]
    /\ UNCHANGED <<uiVars, memVars, files, cur, transcripts, mainPc, mainSess, clock, config,
                   agentCfg, nLines, nTurns, nFaults, nTools>>

\* readdir throws: listSessions rejects and so does the /history handler
HistoryFail(r) ==
    /\ r.pc = "list"
    /\ CanFault
    /\ nFaults' = nFaults + 1
    /\ Unhandled(r)
    /\ ev' = [Ev("list") EXCEPT !.fault = TRUE, !.ep = r.ep]
    /\ UNCHANGED <<uiVars, memVars, files, cur, transcripts, mainSess, clock, config, agentCfg,
                   nLines, nTurns, nTools>>

\* ------------------------------------------------------ logInteraction
LogEv(r) ==
    [Ev("log") EXCEPT !.arg = Stem(r.path), !.path = r.path, !.pre = r.pre,
                      !.ep = r.ep]

\* readFile answers: session.messages = messages; the record is serialized
\* and its writeFile is issued.  A missing file makes readFile throw, which
\* the catch absorbs
LogRead(r) ==
    /\ r.pc = "log.read"
    /\ IF r.path \in DOMAIN files
       THEN /\ hs' = Put(r, [r EXCEPT !.pc = "log.write",
                                      !.sess = [files[r.path] EXCEPT
                                                  !.messages = transcripts[r.ep]]])
            /\ ev' = NoEv
       ELSE /\ hs' = Put(r, AfterCall(r))
            /\ ev' = [LogEv(r) EXCEPT
                        !.res = [NoSession EXCEPT !.messages = transcripts[r.ep]]]
    /\ UNCHANGED <<uiVars, memVars, files, cur, transcripts, mainPc, mainSess, clock, config,
                   agentCfg, nLines, nTurns, nFaults, nTools>>

\* a logInteraction without its try: the failure leaves the handler
LogReadFailThrows(r) ==
    /\ r.pc = "log.read"
    /\ r.path \in DOMAIN files
    /\ CanFault
    /\ nFaults' = nFaults + 1
    /\ Unhandled(r)
    /\ ev' = [LogEv(r) EXCEPT
                !.fault = TRUE,
                !.res = [NoSession EXCEPT !.messages = transcripts[r.ep]]]
    /\ UNCHANGED <<uiVars, memVars, files, cur, transcripts, mainSess, clock, config,
                   agentCfg, nLines, nTurns, nTools>>

\* readFile fails although the file is there: absorbed
LogReadFail(r) ==
    /\ r.pc = "log.read"
    /\ r.path \in DOMAIN files
    /\ CanFault
    /\ nFaults' = nFaults + 1
    /\ hs' = Put(r, AfterCall(r))
    /\ ev' = [LogEv(r) EXCEPT
                !.fault = TRUE,
                !.res = [NoSession EXCEPT !.messages = transcripts[r.ep]]]
    /\ UNCHANGED <<uiVars, memVars, files, cur, transcripts, mainPc, mainSess, clock, config,
                   agentCfg, nLines, nTurns, nTools>>

\* writeFile completes: the record with the new messages is in storage
LogWrite(r) ==
    /\ r.pc = "log.write"
    /\ files' = WriteFile(files, r.path, r.sess)
    /\ hs' = Put(r, AfterCall(r))
    /\ ev' = [LogEv(r) EXCEPT
                !.ok = TRUE, !.res = r.sess,
                !.old = IF r.path \in DOMAIN files
                        THEN files[r.path].messages ELSE <<>>]
    /\ UNCHANGED <<uiVars, memVars, cur, transcripts, mainPc, mainSess, clock, config,
                   agentCfg, nLines, nTurns, nFaults, nTools>>

\* writeFile fails: absorbed
LogWriteFail(r) ==
    /\ r.pc = "log.write"
    /\ CanFault
    /\ nFaults' = nFaults + 1
    /\ hs' = Put(r, AfterCall(r))
    /\ ev' = [LogEv(r) EXCEPT !.fault = TRUE, !.res = r.sess]
    /\ UNCHANGED <<uiVars, memVars, files, cur, transcripts, mainPc, mainSess, clock, config,
                   agentCfg, nLines, nTurns, nTools>>

\* --------------------------------------------------------- loadSession
LoadEv(r, s) ==
    [Ev("load") EXCEPT !.inst = r.inst, !.arg = r.arg, !.res = s,
                       !.ok = (s # NoSession), !.pre = r.pre, !.ep = r.ep]

RenameEv(r) ==
    [Ev("rename") EXCEPT !.inst = r.inst, !.arg = r.arg, !.name = r.name,
                         !.path = r.path, !.res = r.sess, !.pre = r.pre,
                         !.ep = r.ep]

\* renameSession after its loadSession returned the session s: the paths are
\* computed, session.filename is set and the first writeFile is issued
RenameStart(r, s) ==
    [r EXCEPT !.pc = "ren.w1", !.path = s.filename,
              !.sess = [s EXCEPT !.filename = Append(Sanitize(r.name), Ext)]]

\* a /load that leaves the messages array as it was
LoadDoneNoReplace(r, s) ==
    IF r.call = "load"
    THEN /\ transcripts' = transcripts
         /\ hs' = Put(r, AfterCall(r))
         /\ ev' = LoadEv(r, s)
    ELSE /\ transcripts' = transcripts
         /\ IF s = NoSession
            THEN hs' = Put(r, AfterCall(r)) /\ ev' = RenameEv(r)
            ELSE hs' = Put(r, RenameStart(r, s)) /\ ev' = NoEv

\* a /load that replaces the messages array also when nothing was found
LoadDoneAlwaysReplace(r, s) ==
    IF r.call = "load"
    THEN /\ transcripts' = IF r.ret = "prompt"
                           THEN [transcripts EXCEPT ![r.ep] = s.messages]
                           ELSE transcripts
         /\ hs' = Put(r, AfterCall(r))
         /\ ev' = LoadEv(r, s)
    ELSE /\ transcripts' = transcripts
         /\ IF s = NoSession
            THEN hs' = Put(r, AfterCall(r)) /\ ev' = RenameEv(r)
            ELSE hs' = Put(r, RenameStart(r, s)) /\ ev' = NoEv

\* loadSession returns s (NoSession for null) to the code that awaited it:
\*   /load          replaces the messages array when s is a session;
\*   read-session   hands s to the agent;
\*   renameSession  returns false for null, and else goes on
LoadDone(r, s) ==
    IF r.call = "load"
    THEN /\ transcripts' = IF r.ret = "prompt" /\ s # NoSession
                           THEN [transcripts EXCEPT ![r.ep] = s.messages]
                           ELSE transcripts
         /\ hs' = Put(r, AfterCall(r))
         /\ ev' = LoadEv(r, s)
    ELSE /\ transcripts' = transcripts
         /\ IF s = NoSession
            THEN hs' = Put(r, AfterCall(r)) /\ ev' = RenameEv(r)
            ELSE hs' = Put(r, RenameStart(r, s)) /\ ev' = NoEv

\* readFile(filename) answers: this.currentSessionId = session.id; return.
\* A missing file makes it throw: the catch calls listSessions
LoadRead(r) ==
    /\ r.pc = "load.read"
    /\ IF WithJson(r.arg) \in DOMAIN files
       THEN /\ cur' = [cur EXCEPT ![r.inst] = files[WithJson(r.arg)].id]
            /\ LoadDone(r, files[WithJson(r.arg)])
       ELSE /\ cur' = cur
            /\ hs' = Put(r, [r EXCEPT !.pc = "load.list"])
            /\ transcripts' = transcripts
            /\ ev' = NoEv
    /\ UNCHANGED <<uiVars, memVars, files, mainPc, mainSess, clock, config, agentCfg,
                   nLines, nTurns, nFaults, nTools>>

\* readFile fails although the file is there: the catch calls listSessions
LoadReadFail(r) ==
    /\ r.pc = "load.read"
    /\ WithJson(r.arg) \in DOMAIN files
    /\ CanFault
    /\ nFaults' = nFaults + 1
    /\ hs' = Put(r, [r EXCEPT !.pc = "load.list"])
    /\ ev' = NoEv
    /\ UNCHANGED <<uiVars, memVars, files, cur, transcripts, mainPc, mainSess, clock, config,
                   agentCfg, nLines, nTurns, nTools>>

\* listSessions answers: sessions.find(...); a match becomes the active
\* session and is returned, no match returns null
LoadList(r) ==
    /\ r.pc = "load.list"
    /\ \E s \in FindResults(files, r.arg) :
        /\ cur' = IF s = NoSession THEN cur ELSE [cur EXCEPT ![r.inst] = s.id]
        /\ LoadDone(r, s)
    /\ UNCHANGED <<uiVars, memVars, files, mainPc, mainSess, clock, config, agentCfg,
                   nLines, nTurns, nFaults, nTools>>

\* listSessions throws (readdir fails) inside the catch of loadSession: the
\* exception leaves loadSession, and renameSession too, which calls it outside
\* its try.  In a router handler it is unhandled; a tool call reports it to
\* the agent
LoadListFail(r) ==
    /\ r.pc = "load.list"
    /\ CanFault
    /\ nFaults' = nFaults + 1
    /\ IF r.ret = "gen"
       THEN mainPc' = mainPc /\ hs' = Put(r, AfterCall(r))
       ELSE Unhandled(r)
    /\ ev' = [Ev("throw") EXCEPT !.inst = r.inst, !.arg = r.arg,
                                 !.fault = TRUE, !.pre = r.pre, !.ep = r.ep]
    /\ UNCHANGED <<uiVars, memVars, files, cur, transcripts, mainSess, clock, config, agentCfg,
                   nLines, nTurns, nTools>>

\* ------------------------------------------------------- renameSession
\* the catch of renameSession: console.error(e); return false
RenameFalse(r) ==
    /\ hs' = Put(r, AfterCall(r))
    /\ ev' = [RenameEv(r) EXCEPT !.fault = TRUE]

\* the record of the session being renamed as the file at oldPath holds it
StoredBefore(r) ==
    IF r.path \in DOMAIN files /\ files[r.path].id = r.sess.id
    THEN files[r.path] ELSE NoSession

\* writeFile(oldPath, session with the new filename) completes; before keeps
\* what the file held of the session until then
RenameWriteOld(r) ==
    /\ r.pc = "ren.w1"
    /\ files' = WriteFile(files, r.path, r.sess)
    /\ hs' = Put(r, [r EXCEPT !.pc = "ren.mv",
                              !.before = StoredBefore(r)])
    /\ ev' = NoEv
    /\ UNCHANGED <<uiVars, memVars, cur, transcripts, mainPc, mainSess, clock, config, agentCfg,
                   nLines, nTurns, nFaults, nTools>>

RenameWriteOldFail(r) ==
    /\ r.pc = "ren.w1"
    /\ CanFault
    /\ nFaults' = nFaults + 1
    /\ RenameFalse(r)
    /\ UNCHANGED <<uiVars, memVars, files, cur, transcripts, mainPc, mainSess, clock, config,
                   agentCfg, nLines, nTurns, nTools>>

\* a renameSession that leaves session.id as it was loaded
RenameKeepId(r) == [r EXCEPT !.pc = "ren.w2"]

\* const newId = sanitized; session.id = newId
RenameSetId(r) == [r EXCEPT !.pc = "ren.w2", !.sess.id = Sanitize(r.name)]

\* fs.rename(oldPath, newPath) completes; the id is set and the second
\* writeFile is issued.  With oldPath gone, rename throws and the catch
\* returns false
RenameMove(r) ==
    /\ r.pc = "ren.mv"
    /\ IF r.path \in DOMAIN files
       THEN /\ files' = MoveFile(files, r.path, r.sess.filename)
            /\ hs' = Put(r, RenameSetId(r))
            /\ ev' = NoEv
       ELSE /\ files' = files
            /\ hs' = Put(r, AfterCall(r))
            /\ ev' = RenameEv(r)
    /\ UNCHANGED <<uiVars, memVars, cur, transcripts, mainPc, mainSess, clock, config, agentCfg,
                   nLines, nTurns, nFaults, nTools>>

RenameMoveFail(r) ==
    /\ r.pc = "ren.mv"
    /\ CanFault
    /\ nFaults' = nFaults + 1
    /\ RenameFalse(r)
    /\ UNCHANGED <<uiVars, memVars, files, cur, transcripts, mainPc, mainSess, clock, config,
                   agentCfg, nLines, nTurns, nTools>>

\* if (this.currentSessionId === oldIdOrFilename ||
\*     this.currentSessionId === session.id) this.currentSessionId = newId
\* where session.id has already been set to newId
RenamePointer(c, r) ==
    IF c = r.arg \/ c = r.sess.id THEN r.sess.id ELSE c

\* writeFile(newPath, session with the new id) completes; the active-session
\* pointer is updated; return true
RenameWriteNew(r) ==
    /\ r.pc = "ren.w2"
    /\ files' = WriteFile(files, r.sess.filename, r.sess)
    /\ cur' = [cur EXCEPT ![r.inst] = RenamePointer(cur[r.inst], r)]
    /\ hs' = Put(r, AfterCall(r))
    /\ ev' = [RenameEv(r) EXCEPT !.ok = TRUE]
    /\ UNCHANGED <<uiVars, memVars, transcripts, mainPc, mainSess, clock, config, agentCfg,
                   nLines, nTurns, nFaults, nTools>>

RenameWriteNewFail(r) ==
    /\ r.pc = "ren.w2"
    /\ CanFault
    /\ nFaults' = nFaults + 1
    /\ RenameFalse(r)
    /\ UNCHANGED <<uiVars, memVars, files, cur, transcripts, mainPc, mainSess, clock, config,
                   agentCfg, nLines, nTurns, nTools>>

\* ---------------------------------------------------------- chat turn
\* agent.generate is running and the agent calls read-session: loadSession of
\* the tools' own SessionManager, up to its readFile
ToolRead(r, a) ==
    /\ r.pc = "gen"
    /\ nTools' = nTools + 1
    /\ hs' = Put(r, [r EXCEPT !.call = "load", !.pc = "load.read",
                              !.inst = "tools", !.ret = "gen",
                              !.arg = a, !.pre = cur["tools"]])
    /\ ev' = NoEv
    /\ UNCHANGED <<uiVars, memVars, files, cur, transcripts, mainPc, mainSess, clock, config,
                   agentCfg, nLines, nTurns, nFaults>>

\* the agent calls rename-session: renameSession of the tools' SessionManager
ToolRename(r, a, nm) ==
    /\ r.pc = "gen"
    /\ nTools' = nTools + 1
    /\ hs' = Put(r, [r EXCEPT !.call = "rename", !.pc = "load.read",
                              !.inst = "tools", !.ret = "gen",
                              !.arg = a, !.name = nm, !.pre = cur["tools"]])
    /\ ev' = NoEv
    /\ UNCHANGED <<uiVars, memVars, files, cur, transcripts, mainPc, mainSess, clock, config,
                   agentCfg, nLines, nTurns, nFaults>>

\* agent.generate returns text: it is formatted and rendered, the assistant
\* message is pushed and logInteraction is called.  When marked.parse throws,
\* the catch logs the error and nothing is pushed
GenReturn(r, text, rendered) ==
    /\ r.pc = "gen"
    /\ IF rendered
       THEN /\ transcripts' = [transcripts EXCEPT ![r.ep] =
                                 Append(@, AssistantMsg(text))]
            /\ hs' = Put(r, CallLog(r, "prompt"))
       ELSE /\ transcripts' = transcripts
            /\ hs' = Put(r, Idle)
    /\ ev' = [Ev("gen") EXCEPT !.name = text, !.ok = rendered, !.ep = r.ep]
    /\ UNCHANGED <<uiVars, memVars, files, cur, mainPc, mainSess, clock, config, agentCfg,
                   nLines, nTurns, nFaults, nTools>>

\* agent.generate throws: the catch logs the error; rl.prompt()
GenThrow(r) ==
    /\ r.pc = "gen"
    /\ hs' = Put(r, Idle)
    /\ ev' = [Ev("gen") EXCEPT !.fault = TRUE, !.ep = r.ep]
    /\ UNCHANGED <<uiVars, memVars, files, cur, transcripts, mainPc, mainSess, clock, config,
                   agentCfg, nLines, nTurns, nFaults, nTools>>

\* ----------------------------------------------------------------- all
\* identifiers the user may give to /load and the agent to read-session: the
\* ids of the sessions in storage, and one of none
KnownIds(fs) == {Stem(f) : f \in DOMAIN fs} \cup {<<"nope">>}

\* the lines the user may submit
InputLines(fs) ==
    QuitWords \cup
    { <<Blank, "quit", Blank>>, <<"Exit">>, <<"/quit", "!">>,
      <<"/config">>, <<"/config", Blank, "now">>,
      <<"/help">>, <<"/clear">>, <<"/history">>, <<"/load", Blank>>,
      <<>>, <<Blank>>, <<"hello">> } \cup
    {<<"/load", Blank>> \o a : a \in KnownIds(fs)} \cup
    {<<"/rename", Blank>> \o nm : nm \in NewNames}

Lines ==
    \E l \in InputLines(files) :
        \/ LineQuit(l) \/ LineConfig(l) \/ LineHelp(l)
        \/ LineClear(l) \/ LineHistory(l) \/ LineChat(l)
        \/ LineLoad(l) \/ LineRename(l)

StoreSteps(r) ==
    \/ CreateDir(r) \/ CreateWrite(r)
    \/ HistoryList(r)
    \/ LogRead(r) \/ LogWrite(r)
    \/ LoadRead(r) \/ LoadList(r)
    \/ RenameWriteOld(r) \/ RenameMove(r) \/ RenameWriteNew(r)

StoreFaults(r) ==
    \/ CreateFail(r)
    \/ HistoryFail(r)
    \/ LogReadFail(r) \/ LogWriteFail(r)
    \/ LoadReadFail(r) \/ LoadListFail(r)
    \/ RenameWriteOldFail(r) \/ RenameMoveFail(r) \/ RenameWriteNewFail(r)

ToolCalls(r) ==
    \/ \E a \in KnownIds(files) : ToolRead(r, a)
    \/ \E a \in LoadArgs(files), nm \in ToolNames : ToolRename(r, a, nm)

Generation(r) ==
    \/ /\ r.pc = "gen"
       /\ \E text \in Replies(r.turn), rendered \in BOOLEAN :
             GenReturn(r, text, rendered)
    \/ GenThrow(r)

\* the program with a user who may type at any time, and file operations
\* that may fail
Next ==
    \/ MainSteps \/ MainFaults
    \/ nLines < MaxLines /\ Lines
    \/ \E r \in hs :
        \/ StoreSteps(r) \/ StoreFaults(r) \/ Generation(r)
        \/ nTools < MaxToolCalls /\ ToolCalls(r)

Spec == Init /\ [][Next]_vars

\* ------------------------------------------ listSessions on any directory
\* the session directory as other programs may have left it: session files,
\* files that do not parse, files that hold null, and a file that is no .json
ListDirs ==
    LET names == {NewSession(1).filename, NewSession(2).filename,
                  <<"x", Ext>>, <<"notes">>}
        texts(f) ==
            IF f = <<"notes">> THEN {Garbage}
            ELSE {Garbage, JsonNull} \cup
                 {NewSession(t) : t \in {u \in 1..2 : NewSession(u).filename = f}}
    IN UNION {{d \in [D -> {Garbage, JsonNull, NewSession(1), NewSession(2)}] :
                   \A f \in D : d[f] \in texts(f)} : D \in SUBSET names}

\* a SessionManager over a directory of ListDirs, about to call listSessions
ListInit ==
    /\ files \in ListDirs
    /\ cur = [i \in Insts |-> Null]
    /\ transcripts = <<>>
    /\ hs = {}
    /\ mainPc = "list"
    /\ mainSess = NoSession
    /\ clock = 1
    /\ config = "cfgA"
    /\ agentCfg = "cfgA"
    /\ nLines = 0
    /\ nTurns = 0
    /\ nFaults = 0
    /\ nTools = 0
    /\ ev = NoEv
    /\ UiInit
    /\ MemInit

\* listSessions runs to its end
ListCall ==
    /\ mainPc = "list"
    /\ mainPc' = "listed"
    /\ ev' = [Ev("list") EXCEPT !.ok = ~ListSessions(files).throws,
                                !.old = ListSessions(files).sessions]
    /\ UNCHANGED <<uiVars, memVars, files, cur, transcripts, hs, mainSess, clock, config,
                   agentCfg, nLines, nTurns, nFaults, nTools>>

ListNext == ListCall

ListSpec == ListInit /\ [][ListNext]_vars

\* the program with a user who types only at the prompt, when no handler is
\* suspended, and file operations that may fail
SeqNext ==
    \/ MainSteps \/ MainFaults
    \/ nLines < MaxSeqLines /\ hs = {} /\ Lines
    \/ \E r \in hs :
        \/ StoreSteps(r) \/ StoreFaults(r) \/ Generation(r)
        \/ nTools < MaxSeqToolCalls /\ ToolCalls(r)

SeqSpec == Init /\ [][SeqNext]_vars

\* ------------------------------------------------------- ghost text
\* The line editor is Node's readline; runChatSession replaces its redraw
\* routine rl._refreshLine and takes it to run on every keypress (the comment
\* at the clearTimeout).  A keypress is modelled as readline's edit of
\* rl.line and rl.cursor, then the redraw, then keypressHandler, which was
\* registered on the input stream after readline's own listener.

\* const COMMANDS, as sequences of characters
COMMANDS ==
    << <<"/", "h", "e", "l", "p">>,
       <<"/", "c", "o", "n", "f", "i", "g">>,
       <<"/", "c", "l", "e", "a", "r">>,
       <<"/", "h", "i", "s", "t", "o", "r", "y">>,
       <<"/", "l", "o", "a", "d", " ">>,
       <<"/", "r", "e", "n", "a", "m", "e", " ">>,
       <<"/", "e", "x", "i", "t">>,
       <<"/", "q", "u", "i", "t">> >>

\* setTimeout(..., 500): the delay, in ticks of the model's clock
Delay == 2

\* the characters the user types
Chars == {"/", "h", "c", "x"}

\* match.substring(line.length)
Remainder(match, l) == SubSeq(match, Len(l) + 1, Len(match))

\* a find that returns the last command that satisfies the test
RECURSIVE FindLastFrom(_, _)
FindLastFrom(l, i) ==
    IF i > Len(COMMANDS) THEN <<>>
    ELSE LET rest == FindLastFrom(l, i + 1)
         IN IF rest # <<>> THEN rest
            ELSE IF StartsWith(COMMANDS[i], l) /\ COMMANDS[i] # l
                 THEN COMMANDS[i] ELSE <<>>

\* COMMANDS.find(c => c.startsWith(line) && c !== line), looking from
\* position i on: the first command that satisfies the test, <<>> for
\* undefined
RECURSIVE FindFrom(_, _)
FindFrom(l, i) ==
    IF i > Len(COMMANDS) THEN <<>>
    ELSE IF StartsWith(COMMANDS[i], l) /\ COMMANDS[i] # l THEN COMMANDS[i]
    ELSE FindFrom(l, i + 1)

\* the state of the ghost text: suggestion, the timer handle, the latch and
\* the timeouts that are set
Ghost(sug, handle, latch, tms) ==
    [suggestion |-> sug, timer |-> handle, show |-> latch, timers |-> tms]

\* setTimeout: a handle that no set timeout has
NewTimer(tms) == CHOOSE i \in 1..(Cardinality(tms) + 1) :
                     \A t \in tms : t.id # i

\* a redraw that leaves a pending timeout alone
RefreshLineNoCancel(l, c, g) ==
    IF Len(l) > 0 /\ l[1] = "/" /\ c = Len(l)
    THEN IF Len(l) = 1
         THEN IF g.show
              THEN Ghost(Remainder(COMMANDS[1], l), g.timer, g.show, g.timers)
              ELSE Ghost(<<>>, NewTimer(g.timers), g.show,
                         g.timers \cup {[id |-> NewTimer(g.timers), left |-> Delay]})
         ELSE LET match == FindFrom(l, 1)
              IN Ghost(IF match # <<>> THEN Remainder(match, l) ELSE <<>>,
                       g.timer, g.show, g.timers)
    ELSE Ghost(<<>>, g.timer, FALSE, g.timers)

\* rl._refreshLine as replaced by runChatSession, on line l with the cursor at
\* c: suggestion = ''; the pending timeout is cleared; then the ghost text is
\* computed, or the timeout is set, or the latch is reset
RefreshLine(l, c, g) ==
    LET cleared == {t \in g.timers : t.id # g.timer}
    IN IF Len(l) > 0 /\ l[1] = "/" /\ c = Len(l)
       THEN IF Len(l) = 1
            THEN IF g.show
                 THEN Ghost(Remainder(COMMANDS[1], l), 0, g.show, cleared)
                 ELSE Ghost(<<>>, NewTimer(cleared), g.show,
                            cleared \cup {[id |-> NewTimer(cleared), left |-> Delay]})
            ELSE LET match == FindFrom(l, 1)
                 IN Ghost(IF match # <<>> THEN Remainder(match, l) ELSE <<>>,
                          0, g.show, cleared)
       ELSE Ghost(<<>>, 0, FALSE, cleared)

\* the ghost-text state now
GhostNow == Ghost(suggestion, rootSuggestionTimer, showRootSuggestion, timers)

\* the ghost-text state becomes g
SetGhost(g) ==
    /\ suggestion' = g.suggestion
    /\ rootSuggestionTimer' = g.timer
    /\ showRootSuggestion' = g.show
    /\ timers' = g.timers

\* the keypress named name meets the present state
Pressed(name) ==
    /\ quiet' = 0
    /\ key' = [name |-> name, pending |-> timers # {}, odd |-> ~key.odd]

\* the user can press keys: the router is at its prompt
CanType == mainPc = "chat"

\* a character key: readline inserts it at the cursor and redraws
TypeChar(ch) ==
    /\ CanType
    /\ Len(line) < MaxLineLen
    /\ line' = SubSeq(line, 1, cursor) \o <<ch>> \o SubSeq(line, cursor + 1, Len(line))
    /\ cursor' = cursor + 1
    /\ SetGhost(RefreshLine(line', cursor', GhostNow))
    /\ Pressed("char")
    /\ UNCHANGED <<coreVars, memVars>>

\* backspace: readline deletes the character left of the cursor and redraws
Backspace ==
    /\ CanType
    /\ cursor > 0
    /\ line' = SubSeq(line, 1, cursor - 1) \o SubSeq(line, cursor + 1, Len(line))
    /\ cursor' = cursor - 1
    /\ SetGhost(RefreshLine(line', cursor', GhostNow))
    /\ Pressed("backspace")
    /\ UNCHANGED <<coreVars, memVars>>

\* left arrow: readline moves the cursor and redraws
LeftKey ==
    /\ CanType
    /\ line' = line
    /\ cursor' = IF cursor > 0 THEN cursor - 1 ELSE 0
    /\ SetGhost(RefreshLine(line', cursor', GhostNow))
    /\ Pressed("left")
    /\ UNCHANGED <<coreVars, memVars>>

\* keypressHandler for key.name === 'right': with a suggestion and the cursor
\* at the end, rl.write(suggestion), which inserts it and redraws, and
\* suggestion = ''
KeypressHandler(l, c, g) ==
    IF g.suggestion # <<>> /\ c = Len(l)
    THEN [line |-> l \o g.suggestion,
          cursor |-> Len(l) + Len(g.suggestion),
          ghost |-> [RefreshLine(l \o g.suggestion,
                                 Len(l) + Len(g.suggestion), g)
                         EXCEPT !.suggestion = <<>>]]
    ELSE [line |-> l, cursor |-> c, ghost |-> g]

\* right arrow: readline moves the cursor and redraws, then keypressHandler
\* runs
RightKey ==
    /\ CanType
    /\ LET c == IF cursor < Len(line) THEN cursor + 1 ELSE cursor
           after == KeypressHandler(line, c, RefreshLine(line, c, GhostNow))
       IN /\ line' = after.line
          /\ cursor' = after.cursor
          /\ SetGhost(after.ghost)
    /\ Pressed("right")
    /\ UNCHANGED <<coreVars, memVars>>

\* enter on a line that is no chat message and no command with an effect
\* (empty, or /help): the line is taken and the handler calls rl.prompt(),
\* which redraws the empty line
EnterKey ==
    /\ CanType
    /\ line' = <<>>
    /\ cursor' = 0
    /\ SetGhost(RefreshLine(line', cursor', GhostNow))
    /\ Pressed("enter")
    /\ UNCHANGED <<coreVars, memVars>>

\* time passes: the set timeouts come nearer
Tick ==
    /\ CanType
    /\ quiet' = IF quiet < Delay THEN quiet + 1 ELSE Delay
    /\ timers' = {[t EXCEPT !.left = IF t.left > 0 THEN t.left - 1 ELSE 0] :
                      t \in timers}
    /\ UNCHANGED <<line, cursor, suggestion, rootSuggestionTimer,
                   showRootSuggestion, key, coreVars, memVars>>

\* a timeout fires: showRootSuggestion = true; rl._refreshLine(n)
TimerFires ==
    /\ CanType
    /\ \E t \in timers :
        /\ t.left = 0
        /\ SetGhost(RefreshLine(line, cursor,
                                Ghost(suggestion, rootSuggestionTimer, TRUE,
                                      timers \ {t})))
    /\ UNCHANGED <<line, cursor, quiet, key, coreVars, memVars>>

\* runChatSession has just been called on the first session and has prompted
SuggestInit ==
    /\ files = WriteFile(<< >>, NewSession(1).filename, NewSession(1))
    /\ cur = [i \in Insts |-> IF i = "cli" THEN NewSession(1).id ELSE Null]
    /\ transcripts = << <<>> >>
    /\ hs = {}
    /\ mainPc = "chat"
    /\ mainSess = NewSession(1)
    /\ clock = 1
    /\ config = "cfgA"
    /\ agentCfg = "cfgA"
    /\ nLines = 0
    /\ nTurns = 0
    /\ nFaults = 0
    /\ nTools = 0
    /\ ev = [Ev("enterChat") EXCEPT !.ep = 1]
    /\ UiInit
    /\ MemInit

SuggestNext ==
    \/ \E ch \in Chars : TypeChar(ch)
    \/ Backspace \/ LeftKey \/ RightKey \/ EnterKey
    \/ Tick \/ TimerFires

\* the line editor of one runChatSession call, with a user who only edits
SuggestSpec == SuggestInit /\ [][SuggestNext]_vars

\* ------------------------------------------------------- memory tools
\* The memory log is a text: a sequence of tokens, of which Newline is the
\* line break.  The tools are called one after the other, as
\* testMemoryTools calls them.
Newline == "\n"

\* the memories the agent gives to the tools
Memories ==
    { <<>>, <<"tea">>, <<Blank, "tea", Blank>>, <<"tea", Blank, "now">>,
      <<"cat">>, <<"cat", Newline, "tea">> }

\* the message of readMemoryTool when readFile throws
NoMemories == <<"No memories found.">>

\* String.prototype.trim, which also strips line breaks
RECURSIVE TrimSpace(_)
TrimSpace(s) ==
    IF s # <<>> /\ Head(s) \in {Blank, Newline} THEN TrimSpace(Tail(s))
    ELSE IF s # <<>> /\ s[Len(s)] \in {Blank, Newline}
         THEN TrimSpace(SubSeq(s, 1, Len(s) - 1))
    ELSE s

\* String.prototype.includes
Includes(text, part) ==
    \E i \in 0..(Len(text) - Len(part)) :
        SubSeq(text, i + 1, i + Len(part)) = part

\* data.split('\n'): the lines of text, one more than its line breaks
RECURSIVE SplitLines(_)
SplitLines(text) ==
    IF \A i \in 1..Len(text) : text[i] # Newline THEN <<text>>
    ELSE LET i == CHOOSE j \in 1..Len(text) :
                      text[j] = Newline /\ \A k \in 1..(j - 1) : text[k] # Newline
         IN <<SubSeq(text, 1, i - 1)>> \o SplitLines(SubSeq(text, i + 1, Len(text)))

\* newLines.join('\n')
RECURSIVE JoinLines(_)
JoinLines(lines) ==
    IF lines = <<>> THEN <<>>
    ELSE IF Len(lines) = 1 THEN lines[1]
    ELSE lines[1] \o <<Newline>> \o JoinLines(Tail(lines))

\* lines.filter(line => !line.includes(memoryToDelete))
RECURSIVE FilterOut(_, _)
FilterOut(lines, part) ==
    IF lines = <<>> THEN <<>>
    ELSE (IF Includes(lines[1], part) THEN <<>> ELSE <<lines[1]>>)
         \o FilterOut(Tail(lines), part)

\* `\n- [${timestamp}] ${input.memory}`
Entry(m) == <<Newline, "-", Blank, "[", "timestamp", "]", Blank>> \o m

\* a tool call and what it returned: success, or for a read the memories
Called(op, m, ok, text) ==
    /\ Len(memLog) < MaxMemCalls
    /\ memLog' = Append(memLog, [op |-> op, arg |-> m, ok |-> ok, text |-> text])

\* saveMemoryTool: appendFile creates the file when it is missing
SaveMemory(m) ==
    /\ Called("save", m, TRUE, <<>>)
    /\ memory' = (IF memory = NoFile THEN <<>> ELSE memory) \o Entry(m)
    /\ UNCHANGED <<coreVars, uiVars>>

\* saveMemoryTool: appendFile throws
SaveMemoryFail(m) ==
    /\ CanFault
    /\ Called("save", m, FALSE, <<>>)
    /\ UNCHANGED <<memory, uiVars, files, cur, transcripts, hs, mainPc,
                   mainSess, clock, config, agentCfg, nLines, nTurns, nTools, ev>>
    /\ nFaults' = nFaults + 1

\* readMemoryTool: the text of the file, or the message when there is none
ReadMemory ==
    /\ Called("read", <<>>, TRUE,
              IF memory = NoFile THEN NoMemories ELSE memory)
    /\ UNCHANGED <<memory, coreVars, uiVars>>

\* readMemoryTool: readFile throws although the file is there
ReadMemoryFail ==
    /\ CanFault
    /\ memory # NoFile
    /\ Called("read", <<>>, TRUE, NoMemories)
    /\ UNCHANGED <<memory, uiVars, files, cur, transcripts, hs, mainPc,
                   mainSess, clock, config, agentCfg, nLines, nTurns, nTools, ev>>
    /\ nFaults' = nFaults + 1

\* deleteMemoryTool: the lines that include the trimmed memory are dropped
\* and the rest is written back; with no such line, or no file, it fails
DeleteMemory(m) ==
    /\ IF memory = NoFile
       THEN Called("delete", m, FALSE, <<>>) /\ memory' = memory
       ELSE LET lines == SplitLines(memory)
                newLines == FilterOut(lines, TrimSpace(m))
            IN IF Len(newLines) = Len(lines)
               THEN Called("delete", m, FALSE, <<>>) /\ memory' = memory
               ELSE Called("delete", m, TRUE, <<>>) /\ memory' = JoinLines(newLines)
    /\ UNCHANGED <<coreVars, uiVars>>

\* deleteMemoryTool: readFile or writeFile throws
DeleteMemoryFail(m) ==
    /\ CanFault
    /\ memory # NoFile
    /\ Called("delete", m, FALSE, <<>>)
    /\ UNCHANGED <<memory, uiVars, files, cur, transcripts, hs, mainPc,
                   mainSess, clock, config, agentCfg, nLines, nTurns, nTools, ev>>
    /\ nFaults' = nFaults + 1

MemNext ==
    \/ \E m \in Memories :
        \/ SaveMemory(m) \/ SaveMemoryFail(m)
        \/ DeleteMemory(m) \/ DeleteMemoryFail(m)
    \/ ReadMemory \/ ReadMemoryFail

\* the memory tools alone, called on a directory without MEMORY.md
MemSpec == Init /\ [][MemNext]_vars

\* ============================================================== claims
IsPrefix(a, b) == Len(a) <= Len(b) /\ SubSeq(b, 1, Len(a)) = a

\* the chat messages sent so far
Turns == 1..nTurns

\* C1: in every reachable state, every record in storage has an id equal to
\* the key it is stored under (the file name without .json), also between the
\* file operations of renameSession and after a renameSession that failed
\* part-way.
C1_IdEqualsKey ==
    \A f \in DOMAIN files : files[f].id = Stem(f)

\* C2: when createSession returns, the returned id is the id of the record
\* it wrote, the record is stored under the key of that id, the record has no
\* messages, and the active session id is the returned id.
C2_CreateSession ==
    ev.kind = "create" /\ ev.ok =>
        /\ ev.path \in DOMAIN files
        /\ files[ev.path] = ev.res
        /\ ev.res.id = ev.arg
        /\ Stem(ev.path) = ev.arg
        /\ ev.res.messages = <<>>
        /\ cur["cli"] = ev.arg

\* /clear has created a session while another one was active
C2_Witness ==
    /\ ev.kind = "create" /\ ev.ok
    /\ ev.ep > 0
    /\ ~Falsy(ev.pre)
    /\ ev.path \in DOMAIN files

\* C3: while no file operation has failed, when logInteraction(T) returns,
\* loadSession of the session id that was active at the call returns a record
\* whose messages are T.
C3_RoundTrip ==
    ev.kind = "log" /\ nFaults = 0 =>
        \A s \in LoadResults(files, ev.arg) :
            s # NoSession /\ s.messages = ev.res.messages

\* the record under the slug's key has the slug as its id, and loadSession of
\* the slug returns it
C4_SlugResolves ==
    /\ ev.res.id = Sanitize(ev.name)
    /\ Append(Sanitize(ev.name), Ext) \in DOMAIN files
    /\ files[Append(Sanitize(ev.name), Ext)] = ev.res
    /\ LoadResults(files, Sanitize(ev.name)) = {ev.res}

C5_ActiveFollowsRename ==
    ev.kind = "rename" /\ ev.ok /\ ev.pre = Stem(ev.path)
                       /\ ev.arg \in {Stem(ev.path), ev.path} =>
        cur[ev.inst] = ev.res.id

\* C6: when renameSession returns false, the active session id is what it
\* was when renameSession was called.
C6_FailedRenameKeepsActive ==
    ev.kind = "rename" /\ ~ev.ok => cur[ev.inst] = ev.pre

\* the assistant message at position i of msgs answers a user message that
\* stands before it
C7_Caused(msgs, i) ==
    \E n \in Turns, j \in 1..(i - 1) :
        /\ msgs[j] = UserMsg(n)
        /\ msgs[i] \in {AssistantMsg(t) : t \in Replies(n)}

\* C7: no record in storage holds an assistant reply that is not preceded by
\* the user message that caused it.
C7_ReplyAfterItsTurn ==
    \A f \in DOMAIN files :
        \A i \in 1..Len(files[f].messages) :
            files[f].messages[i].role = "assistant" =>
                C7_Caused(files[f].messages, i)

\* C8: a line is processed to completion before the handler of the next line
\* starts: at most one line handler is in flight.
C8_OneHandlerAtATime ==
    Cardinality(hs) <= 1

\* C9: runChatSession is entered with a brand-new active session, also after
\* a reconfigure: the record of the active session holds no messages.
C9_FreshSessionPerIteration ==
    ev.kind = "enterChat" =>
        \A f \in DOMAIN files :
            files[f].id = cur["cli"] => files[f].messages = <<>>

\* C10: while no file operation has failed, the messages a logInteraction
\* call persists to a record extend the messages the record held.
C10_AppendOnly ==
    ev.kind = "log" /\ ev.ok /\ nFaults = 0 =>
        IsPrefix(ev.old, ev.res.messages)

\* C11: when a /load has found a session, the messages array of its
\* runChatSession call equals the loaded record's messages and the router's
\* active session id is the loaded record's id.
C11_LoadReplaces ==
    ev.kind = "load" /\ ev.inst = "cli" /\ ev.ok =>
        /\ transcripts[ev.ep] = ev.res.messages
        /\ cur["cli"] = ev.res.id

\* a /load has found a session that holds messages
C11_Witness ==
    /\ ev.kind = "load" /\ ev.inst = "cli" /\ ev.ok
    /\ ev.res.messages # <<>>
    /\ transcripts[ev.ep] = ev.res.messages

\* C12: no step of a /load handler changes the messages array or the active
\* session id, unless it is the step in which loadSession finds a session.
C12_FailedLoadChangesNothing ==
    [][ (\E r \in hs : r.op = "load") /\ ~(ev'.kind = "load" /\ ev'.ok) =>
            transcripts' = transcripts /\ cur' = cur ]_vars

\* a /load of an identifier that matches no session has reported not-found
\* while there was a conversation and an active session
C12_Witness ==
    /\ ev.kind = "load" /\ ev.inst = "cli" /\ ~ev.ok
    /\ ev.arg = <<"nope">>
    /\ transcripts[ev.ep] # <<>>
    /\ ~Falsy(cur["cli"])
    /\ mainPc = "chat" /\ hs = {}

\* the last message of msgs is the user message of chat turn n
C13_EndsWithUserTurn(msgs, n) ==
    Len(msgs) > 0 /\ msgs[Len(msgs)] = UserMsg(n)

\* C13: while no file operation has failed, when the generation call of a
\* chat turn throws, the router keeps running and prompts, the messages array
\* ends with the turn's user message (no assistant message was added), and a
\* record in storage ends with that user message too.
C13_ThrowKeepsUserTurn ==
    ev.kind = "gen" /\ ev.fault /\ nFaults = 0 =>
        /\ mainPc = "chat" /\ hs = {}
        /\ C13_EndsWithUserTurn(transcripts[ev.ep], nTurns)
        /\ \E f \in DOMAIN files :
               C13_EndsWithUserTurn(files[f].messages, nTurns)

\* a chat turn whose generation call returned has ended and the router has
\* prompted
C14_TurnDone ==
    /\ mainPc = "chat" /\ hs = {}
    /\ \/ ev.kind = "gen" /\ ~ev.fault
       \/ ev.kind = "log"

\* C14: while no file operation has failed, when a chat turn that started
\* from an empty messages array and whose generation call returned has ended,
\* a record in storage holds exactly the turn's user message followed by the
\* assistant reply, also when rendering the reply threw.
C14_TurnPersisted ==
    /\ C14_TurnDone /\ nFaults = 0
    /\ transcripts[ev.ep] # <<>>
    /\ transcripts[ev.ep][1] = UserMsg(nTurns)
    => \E f \in DOMAIN files :
          /\ Len(files[f].messages) = 2
          /\ files[f].messages[1] = UserMsg(nTurns)
          /\ files[f].messages[2] \in {AssistantMsg(t) : t \in Replies(nTurns)}

\* the answer words of text: what is left of it outside the thinking blocks
\* and the blanks around them
C15_AnswerText(text) ==
    SelectSeq(text, LAMBDA x : x \in {AnswerWord(n) : n \in Turns})

\* msgs holds no assistant message with both a thinking tag and answer text
C15_NoThinkingWithAnswer(msgs) ==
    \A i \in 1..Len(msgs) :
        msgs[i].role = "assistant" =>
            \/ C15_AnswerText(msgs[i].content) = <<>>
            \/ \A k \in 1..Len(msgs[i].content) :
                   msgs[i].content[k] \notin {ThinkOpen, ThinkClose}

\* C15: the assistant message pushed for a generated text holds the text
\* without its thinking blocks, and the whole text only when nothing is left
\* without them; no assistant message in a messages array or in storage holds
\* a thinking tag together with answer text.
C15_ThinkingStripped ==
    /\ ev.kind = "gen" /\ ev.ok =>
          /\ transcripts[ev.ep] # <<>>
          /\ transcripts[ev.ep][Len(transcripts[ev.ep])] =
                [role |-> "assistant",
                 content |-> IF C15_AnswerText(ev.name) # <<>>
                             THEN C15_AnswerText(ev.name) ELSE ev.name]
    /\ \A e \in 1..Len(transcripts) : C15_NoThinkingWithAnswer(transcripts[e])
    /\ \A f \in DOMAIN files : C15_NoThinkingWithAnswer(files[f].messages)

\* a reply with two thinking blocks around its answer has been pushed as
\* the bare answer
C15_Witness ==
    /\ ev.kind = "gen" /\ ev.ok
    /\ Len(ev.name) = 8 /\ ev.name[1] = ThinkOpen
    /\ transcripts[ev.ep][Len(transcripts[ev.ep])].content = <<AnswerWord(1)>>

\* C16: the step that reads a line ends the router with 'quit' (main exits
\* the process) exactly when the trimmed line is exit, quit, /exit or /quit,
\* and with 'configure' (main starts the setup wizard) exactly when it is
\* /config; after every other line the router is still running.  After the
\* exit nothing happens any more, and from the wizard main goes on to the
\* connectivity probe, from where the router is entered again, unless a file
\* operation fails.
C16_RouterSignals ==
    [][ /\ nLines' # nLines =>
            /\ mainPc' = "exit" <=> Trim(ev'.name) \in QuitWords
            /\ mainPc' = "wizard" <=> Trim(ev'.name) = <<"/config">>
            /\ mainPc' \in {"exit", "wizard", "chat"}
        /\ mainPc # "exit"
        /\ mainPc = "wizard" /\ nFaults' = nFaults =>
            mainPc' \in {"wizard", "probe"}
        /\ mainPc = "probe" /\ mainPc' = "chat" =>
            ev'.kind = "enterChat" /\ Len(transcripts') = Len(transcripts) + 1
      ]_vars

\* a line with blanks around the word quit has ended the process
C16_Witness ==
    /\ ev.kind = "quit" /\ ev.name = <<Blank, "quit", Blank>>
    /\ mainPc = "exit"
    /\ Len(transcripts) = 2

\* C17: the process never dies of a failed file operation of a session-store
\* call made by the router's line handlers (createSession of /clear,
\* listSessions of /history, loadSession of /load, renameSession of /rename,
\* logInteraction of a chat turn).
C17_RouterSurvivesStoreFaults ==
    mainPc = "crashed" =>
        ~(ev.fault /\ ev.ep > 0 /\ ev.kind \in {"create", "list", "throw", "rename", "log"})

\* the records in the list
C18_Elements(list) == {list[i] : i \in 1..Len(list)}

\* C18: listSessions returns, without throwing, exactly one entry for every
\* file that ends with .json and parses, whatever else the directory holds.
C18_ListSkipsCorrupt ==
    mainPc = "listed" =>
        /\ ev.ok
        /\ Len(ev.old) = Cardinality(Parsed(files))
        /\ C18_Elements(ev.old) = {files[f] : f \in Parsed(files)}
        /\ Garbage \notin C18_Elements(ev.old)

\* C19: when renameSession returns true, the record it stored has the
\* messages and the createdAt that the stored record of the session had when
\* renameSession began to write.
C19_RenameKeepsContent ==
    [][ \A r \in hs :
            r.pc = "ren.w2" /\ r \notin hs' /\ r.before # NoSession
            /\ ev'.kind = "rename" /\ ev'.ok =>
                /\ ev'.res.messages = r.before.messages
                /\ ev'.res.createdAt = r.before.createdAt ]_vars

\* a step in which the failure of a line handler left over from an earlier
\* chat loop ends the process
C20_HandlerCrash == mainPc' = "crashed" /\ ev'.fault /\ ev'.ep > 0

\* C20: the chat loop is entered only from a probe that succeeded; after a
\* failed probe the check goes on only by quit, which ends the process, by
\* change, which runs the wizard and then probes again, or by a new probe;
\* a probe may fail and be repeated any number of times.
C20_ConnectivityCheck ==
    [][ /\ mainPc' = "chat" /\ mainPc # "chat" =>
               mainPc = "probe" /\ ev'.kind = "enterChat"
        /\ mainPc = "ask" /\ ~C20_HandlerCrash =>
               /\ mainPc' \in {"ask", "exit", "askWizard", "probe"}
               /\ mainPc' = "exit" => hs' = AllIdle
               /\ ENABLED AskRetry /\ ENABLED AskChange /\ ENABLED AskQuit
        /\ mainPc = "askWizard" /\ ~C20_HandlerCrash =>
               mainPc' \in {"askWizard", "probe"}
        /\ mainPc = "probe" /\ ~C20_HandlerCrash =>
               /\ mainPc' \in {"probe", "chat", "ask"}
               /\ ENABLED ProbeFail /\ ENABLED ProbeOk ]_vars

\* the first chat loop is entered with a configuration that was changed
\* inside the check, after a failed probe
C20_Witness ==
    /\ ev.kind = "enterChat"
    /\ mainPc = "chat"
    /\ Len(transcripts) = 1
    /\ config = "cfgB"

\* the input line is exactly the bare prefix, with the cursor at its end
C21_BarePrefix == line = <<"/">> /\ cursor = 1

\* C21: while the line is exactly "/", a suggestion is there only when the
\* delay has passed since the last keypress; and right after a keypress every
\* pending timeout has its whole delay still to run.
C21_Debounce ==
    /\ C21_BarePrefix /\ suggestion # <<>> => quiet >= Delay
    /\ quiet = 0 => \A t \in timers : t.left = Delay

\* C22: at most one reveal timeout is set at any time, and it is the one the
\* handle names.
C22_OneTimer ==
    /\ Cardinality(timers) <= 1
    /\ \A t \in timers : t.id = rootSuggestionTimer

\* a keypress met a pending timeout, and one timeout is pending after it
C22_Witness ==
    /\ key.pending
    /\ quiet = 0
    /\ Cardinality(timers) = 1

\* C24: the reveal latch is set only while the line is exactly "/" with the
\* cursor at its end.
C24_LatchOnlyAtBarePrefix == showRootSuggestion => C21_BarePrefix

\* command number i starts with the typed text l and is not l
C25_Candidate(l, i) ==
    /\ Len(COMMANDS[i]) > Len(l)
    /\ \A k \in 1..Len(l) : COMMANDS[i][k] = l[k]

\* C25: with more than "/" typed, the line starting with "/" and the cursor at
\* the end, the suggestion completes the line to the first command of the
\* list that the line is a proper beginning of, and is empty when there is
\* none.
C25_DeeperSuggestion ==
    Len(line) > 1 /\ line[1] = "/" /\ cursor = Len(line) =>
        IF \E i \in 1..Len(COMMANDS) : C25_Candidate(line, i)
        THEN \E i \in 1..Len(COMMANDS) :
                /\ C25_Candidate(line, i)
                /\ \A j \in 1..(i - 1) : ~C25_Candidate(line, j)
                /\ line \o suggestion = COMMANDS[i]
        ELSE suggestion = <<>>

\* "/h" was typed: two commands begin with it, and the first is suggested
C25_Witness ==
    /\ line = <<"/", "h">> /\ cursor = 2
    /\ key.name = "char"
    /\ suggestion = <<"e", "l", "p">>

\* C26: the right-arrow key, pressed while a suggestion is current and the
\* cursor is at the end, appends the suggestion to the line and leaves the
\* suggestion empty; pressed with no suggestion or with the cursor elsewhere,
\* it leaves the line as it is.
C26_Accept ==
    [][ key' # key /\ key'.name = "right" =>
            IF suggestion # <<>> /\ cursor = Len(line)
            THEN line' = line \o suggestion /\ suggestion' = <<>>
            ELSE line' = line ]_vars

\* call number i was made with no file operation failing before the next
\* call returned, and the next call is a read
C23_ThenRead(i) == i < Len(memLog) /\ memLog[i + 1].op = "read" /\ nFaults = 0

\* C23: a read that follows a successful save of m returns a text that
\* contains m, and a read that follows a successful delete of m returns a
\* text that does not contain m.
C23_SaveThenDelete ==
    \A i \in 1..Len(memLog) :
        C23_ThenRead(i) /\ memLog[i].ok =>
            /\ memLog[i].op = "save" =>
                   Includes(memLog[i + 1].text, memLog[i].arg)
            /\ memLog[i].op = "delete" =>
                   ~Includes(memLog[i + 1].text, memLog[i].arg)

\* a step in which the router calls logInteraction: a chat line is read, or
\* a reply has been rendered
C27_LogCalled ==
    \/ nLines' = nLines + 1 /\ Command(Trim(ev'.name)) = "chat"
    \/ ev'.kind = "gen" /\ ev'.ok /\ hs' # hs

\* a step in which logInteraction returns without having written
C27_LogAbsorbed == ev'.kind = "log" /\ ~ev'.ok /\ hs' # hs

\* C27: called with no active session, logInteraction starts no file
\* operation and changes neither storage nor the active id; when its readFile
\* or writeFile fails it returns with storage, the active id and the
\* transcript unchanged, the process goes on, and a chat turn that awaited it
\* goes on to its generation.
C27_LogAbsorbsFailure ==
    [][ /\ C27_LogCalled /\ Falsy(cur["cli"]) =>
               /\ files' = files /\ cur' = cur
               /\ \A r \in hs' \ hs : r.call # "log"
        /\ C27_LogAbsorbed =>
               /\ files' = files /\ cur' = cur /\ transcripts' = transcripts
               /\ mainPc' = mainPc
               /\ \A r \in hs \ hs' :
                      r.call = "log" /\ r.ret = "gen" =>
                          \E q \in hs' \ hs : q.pc = "gen" /\ q.ln = r.ln ]_vars

\* a file operation of logInteraction failed, and the chat turn that called
\* it is generating
C27_Witness ==
    /\ ev.kind = "log" /\ ev.fault /\ ~ev.ok
    /\ mainPc = "chat"
    /\ \E r \in hs : r.pc = "gen" /\ r.ep = ev.ep

\* a step in which a createSession returns
C28_Created == ev'.kind = "create" /\ ev'.ok /\ (hs' # hs \/ mainPc' # mainPc)

\* C28: no step destroys the record of a session: every session that has a
\* record in storage has one after the step (sessions are told apart by their
\* createdAt), and createSession writes to a key that holds no record.
C28_NoRecordDestroyed ==
    [][ /\ \A f \in DOMAIN files :
               \E g \in DOMAIN files' :
                   files'[g].createdAt = files[f].createdAt
        /\ C28_Created => ev'.path \notin DOMAIN files ]_vars

\* C29: while the router waits at its prompt and no file operation has
\* failed, the router's active session id, if set, is the id of a record that
\* is in storage under the key of that id.
C29_ActiveRecordExists ==
    mainPc = "chat" /\ hs = {} /\ nFaults = 0 /\ ~Falsy(cur["cli"]) =>
        /\ WithJson(cur["cli"]) \in DOMAIN files
        /\ files[WithJson(cur["cli"])].id = cur["cli"]

\* msgs holds the user message of turn n
C30_HoldsTurn(msgs, n) == \E j \in 1..Len(msgs) : msgs[j] = UserMsg(n)

\* C30: when, with no file operation failed, logInteraction has persisted a
\* transcript that ends with the reply of a chat turn whose user message is in
\* storage, that transcript holds the user message before the reply, and the
\* record it was written to held that user message already.
C30_ReplyJoinsItsTurn ==
    ev.kind = "log" /\ ev.ok /\ nFaults = 0 /\ ev.res.messages # <<>> =>
        \A n \in Turns :
            /\ ev.res.messages[Len(ev.res.messages)]
                   \in {AssistantMsg(t) : t \in Replies(n)}
            /\ \E f \in DOMAIN files : C30_HoldsTurn(files[f].messages, n)
            => /\ C30_HoldsTurn(SubSeq(ev.res.messages, 1,
                                       Len(ev.res.messages) - 1), n)
               /\ C30_HoldsTurn(ev.old, n)

\* C31: when renameSession returns after having found a session that was not
\* the active one of its SessionManager at the call, the active session id of
\* that SessionManager is what it was at the call.
C31_RenameOfOtherKeepsActive ==
    ev.kind = "rename" /\ ev.path # <<>> /\ ev.pre # Stem(ev.path) =>
        cur[ev.inst] = ev.pre

\* C32: when renameSession has returned true, the id of the renamed record
\* and the active session id of its SessionManager are not empty, and no
\* record in storage has an empty id.
C32_RenameKeepsIdNonEmpty ==
    /\ ev.kind = "rename" /\ ev.ok =>
           ev.res.id # <<>> /\ ~Falsy(cur[ev.inst])
    /\ \A f \in DOMAIN files : files[f].id # <<>>

\* C33: when runChatSession is entered, the agent was built from the
\* configuration that the probe has just accepted.
C33_AgentFromProbedConfig ==
    ev.kind = "enterChat" => agentCfg = config

====
